---------------------------- MODULE Spec2Model ----------------------------
(***************************************************************************)
(* Model of the TransitionGroup component of @enact/ui/ViewManager          *)
(* (src/packages/sampler/stories/qa-stories/CheckboxItem.js, lines 91-413). *)
(*                                                                         *)
(* A TransitionGroup instance tracks an ordered collection of keyed        *)
(* children (state.children), a map of keys that are in transition         *)
(* (currentlyTransitioningKeys) and three queues of keys whose transition  *)
(* is begun by componentDidUpdate.  The rendering runtime calls            *)
(* componentWillReceiveProps, then renders, then calls componentDidUpdate; *)
(* a child calls the completion callback it was handed at a later time.    *)
(*                                                                         *)
(* Three further modules of the repository are modelled, each under its   *)
(* own specification: the Pause class of spotlight/Pause                   *)
(* (src/unnamed/part_003), the VideoBase component of                      *)
(* moonstone/VideoPlayer/Video.js and the resource bundle of i18n          *)
(* (src/unnamed/part_004).                                                 *)
(***************************************************************************)
EXTENDS Integers, Sequences, FiniteSets, TLC

\* Keys of the children the parent may supply.
Keys == {"A", "B", "C"}

\* The children hold at most this many callbacks they have not yet invoked.
MaxPending == 2

\* defaultProps.size
DefaultSize == 2

\* The values of the `size` prop explored: the two its documentation names.
Sizes == {1, DefaultSize}

Kinds == {"appear", "enter", "stay", "leave"}

VARIABLES
    pc,                          \* lifecycle reached: "constructed", "mounted", "updated"
    children,                    \* this.state.children
    propsChildren,               \* this.props.children
    size,                        \* this.props.size
    currentlyTransitioningKeys,  \* keys k with currentlyTransitioningKeys[k] = true
    keysToEnter,                 \* this.keysToEnter
    keysToStay,                  \* this.keysToStay
    keysToLeave,                 \* this.keysToLeave
    pending,                     \* completion callbacks handed to a child, not yet invoked
    pauseCount,                  \* spotlight/Pause: the module's pauseCount
    lastPauser,                  \* the Pause instance that called pause() last
    pauseCall,                   \* the last call made on a Pause instance
    video,                       \* the fields of a VideoBase instance
    resBundle,                   \* i18n: the module's resBundle
    loads,                       \* asynchronous bundle loads not yet completed
    created,                     \* number of ResBundle objects constructed
    resCall,                     \* the last call or promise settlement of the module
    lastRequest                  \* the last setResBundleLocale call

groupVars == <<pc, children, propsChildren, size, currentlyTransitioningKeys,
               keysToEnter, keysToStay, keysToLeave, pending>>

pauseVars == <<pauseCount, lastPauser, pauseCall>>

resVars == <<resBundle, loads, created, resCall, lastRequest>>

vars == <<groupVars, pauseVars, video, resVars>>

-----------------------------------------------------------------------------
(* Helpers on sequences *)

Range(s) == {s[i] : i \in DOMAIN s}

KeysOf(cs) == {cs[i].key : i \in DOMAIN cs}

KeySeq(cs) == [i \in DOMAIN cs |-> cs[i].key]

\* All sequences over S without repetition.
RECURSIVE Arrangements(_)
Arrangements(S) ==
    IF S = {} THEN {<<>>}
    ELSE {<<>>} \cup UNION {{<<x>> \o t : t \in Arrangements(S \ {x})} : x \in S}

\* A React element: a key and the payload (type and props) it carries.
Element(k, p) == [key |-> k, payload |-> p]

\* The elements of the first render carry the payload "v1"; every later render
\* of the parent creates its elements anew, with the payload "v2".
Elements(ks, p) == [i \in DOMAIN ks |-> Element(ks[i], p)]

\* The `children` prop at construction: keys are interchangeable, so the first
\* collection is taken in alphabetical order.  Two children exceed a size of 1:
\* the constructor does not limit them.
InitialChildren ==
    {Elements(ks, "v1") : ks \in {<<>>, <<"A">>, <<"A", "B">>}}

\* The `children` prop of an update: children with distinct keys, in any order.
ChildrenProps == {Elements(ks, "v2") : ks \in Arrangements(Keys)}

-----------------------------------------------------------------------------
(* Pure functions of the module *)

\* R.findIndex(R.propEq('key', key), children): 0-based, -1 when absent.
indexOfChild(key, cs) ==
    IF \E i \in DOMAIN cs : cs[i].key = key
    THEN (CHOOSE i \in DOMAIN cs :
              cs[i].key = key /\ \A j \in 1..(i - 1) : cs[j].key # key) - 1
    ELSE -1

\* R.compose(R.lte(0), indexOfChild)
hasChild(key, cs) == 0 <= indexOfChild(key, cs)

\* React.Children.toArray(children).filter(c => !!c)
mapChildren(cs) == SelectSeq(cs, LAMBDA c : c.key \in Keys)

\* R.uniqWith(pred, list): keeps the first element of each class.
RECURSIVE uniqByKey(_, _)
uniqByKey(list, acc) ==
    IF list = <<>> THEN acc
    ELSE uniqByKey(Tail(list),
                   IF hasChild(Head(list).key, acc) THEN acc
                   ELSE Append(acc, Head(list)))

\* A merge that keeps the duplicates.
mergeChildrenAll(a, b) == a \o b

\* A merge that puts the next children first.
mergeChildrenNextFirst(a, b) == uniqByKey(b \o a, <<>>)

\* A merge that takes the element of b for a key that a and b share.
mergeChildrenNewer(a, b) ==
    LET m == uniqByKey(a \o b, <<>>)
    IN  [i \in DOMAIN m |->
            IF hasChild(m[i].key, b) THEN b[indexOfChild(m[i].key, b) + 1]
            ELSE m[i]]

\* R.unionWith(R.eqBy(R.prop('key'))): uniqWith over the concatenation a ++ b.
mergeChildren(a, b) == uniqByKey(a \o b, <<>>)

\* R.splitAt(n, list)
splitAt(n, list) ==
    LET m == IF n < 0 THEN 0 ELSE IF n > Len(list) THEN Len(list) ELSE n
    IN  <<SubSeq(list, 1, m), SubSeq(list, m + 1, Len(list))>>

\* R.remove(start, count, list): a copy of list, spliced (Array.prototype.splice
\* counts a negative start from the end).
remove(start, count, list) ==
    LET len  == Len(list)
        from == IF start < 0
                THEN (IF len + start < 0 THEN 0 ELSE len + start)
                ELSE (IF start > len THEN len ELSE start)
        n    == IF count < 0 THEN 0
                ELSE IF count > len - from THEN len - from ELSE count
    IN  SubSeq(list, 1, from) \o SubSeq(list, from + n + 1, len)

-----------------------------------------------------------------------------
(* The handlers, as functions of the instance's fields.                     *)
(* A handler state s holds the fields a handler reads and writes:           *)
(*   children, ctk (currentlyTransitioningKeys), qEnter/qStay/qLeave,       *)
(*   props (this.props.children), refs (this.refs: one string ref per       *)
(*   rendered child, lines 391-396), pending (callbacks handed to children),*)
(*   log (hooks invoked), dirty (setState was called), err (a TypeError was *)
(*   thrown, which ends the handler).                                       *)
(* will is the set of keys whose component defines the componentWill* hook  *)
(* that is asked for.                                                       *)

Hook(name, key) == [hook |-> name, key |-> key]

Callback(kind, key) == <<kind, key>>

\* Reading a property of this.refs[key] when no component is mounted under
\* that ref throws a TypeError.
Throw(s) == [s EXCEPT !.err = TRUE]

\* A leave completion that deletes the first tracked entry.
handleDoneLeavingFirst(s, key) ==
    IF s.err THEN s
    ELSE IF key \notin s.refs THEN Throw(s)
    ELSE [s EXCEPT !.log = Append(@, Hook("componentDidLeave", key)),
                   !.ctk = @ \ {key},
                   !.children = remove(0, 1, @),
                   !.dirty = TRUE]

handleDoneLeaving(s, key) ==
    IF s.err THEN s
    ELSE IF key \notin s.refs THEN Throw(s)
    ELSE [s EXCEPT !.log = Append(@, Hook("componentDidLeave", key)),
                   !.ctk = @ \ {key},
                   !.children = remove(indexOfChild(key, @), 1, @),
                   !.dirty = TRUE]

performLeave(s, key, will) ==
    IF s.err THEN s
    ELSE LET s1 == [s EXCEPT !.ctk = @ \cup {key}]
         IN  IF key \notin s1.refs THEN Throw(s1)
             ELSE IF key \in will
             THEN [s1 EXCEPT !.log = Append(@, Hook("componentWillLeave", key)),
                             !.pending = @ \cup {Callback("leave", key)}]
             ELSE handleDoneLeaving(s1, key)

\* An appear completion that never begins a leave.
handleDoneAppearingStays(s, key, will) ==
    IF s.err THEN s
    ELSE IF key \notin s.refs THEN Throw(s)
    ELSE [s EXCEPT !.log = Append(@, Hook("componentDidAppear", key)),
                   !.ctk = @ \ {key}]

handleDoneAppearing(s, key, will) ==
    IF s.err THEN s
    ELSE IF key \notin s.refs THEN Throw(s)
    ELSE LET s1 == [s EXCEPT !.log = Append(@, Hook("componentDidAppear", key)),
                             !.ctk = @ \ {key}]
             currentChildMapping == mapChildren(s.props)
         IN  IF ~hasChild(key, currentChildMapping)
             THEN performLeave(s1, key, will)
             ELSE s1

performAppear(s, key, will) ==
    IF s.err THEN s
    ELSE LET s1 == [s EXCEPT !.ctk = @ \cup {key}]
         IN  IF key \notin s1.refs THEN Throw(s1)
             ELSE IF key \in will
             THEN [s1 EXCEPT !.log = Append(@, Hook("componentWillAppear", key)),
                             !.pending = @ \cup {Callback("appear", key)}]
             ELSE handleDoneAppearing(s1, key, will)

handleDoneEntering(s, key) ==
    IF s.err THEN s
    ELSE IF key \notin s.refs THEN Throw(s)
    ELSE [s EXCEPT !.log = Append(@, Hook("componentDidEnter", key)),
                   !.ctk = @ \ {key}]

\* An enter that is never completed on a child without componentWillEnter.
performEnterNoCompletion(s, key, will) ==
    IF s.err THEN s
    ELSE LET s1 == [s EXCEPT !.ctk = @ \cup {key}]
         IN  IF key \notin s1.refs THEN Throw(s1)
             ELSE IF key \in will
             THEN [s1 EXCEPT !.log = Append(@, Hook("componentWillEnter", key)),
                             !.pending = @ \cup {Callback("enter", key)}]
             ELSE s1

performEnter(s, key, will) ==
    IF s.err THEN s
    ELSE LET s1 == [s EXCEPT !.ctk = @ \cup {key}]
         IN  IF key \notin s1.refs THEN Throw(s1)
             ELSE IF key \in will
             THEN [s1 EXCEPT !.log = Append(@, Hook("componentWillEnter", key)),
                             !.pending = @ \cup {Callback("enter", key)}]
             ELSE handleDoneEntering(s1, key)

handleDoneStaying(s, key) ==
    IF s.err THEN s
    ELSE IF key \notin s.refs THEN Throw(s)
    ELSE [s EXCEPT !.log = Append(@, Hook("componentDidStay", key))]

\* A stay that flags its key as transitioning.
performStayInFlight(s, key, will) ==
    IF s.err THEN s
    ELSE LET s1 == [s EXCEPT !.ctk = @ \cup {key}]
         IN  IF key \notin s1.refs THEN Throw(s1)
             ELSE IF key \in will
             THEN [s1 EXCEPT !.log = Append(@, Hook("componentWillStay", key)),
                             !.pending = @ \cup {Callback("stay", key)}]
             ELSE handleDoneStaying(s1, key)

\* A stay that invokes nothing on a child without componentWillStay.
performStaySilent(s, key, will) ==
    IF s.err THEN s
    ELSE IF key \notin s.refs THEN Throw(s)
    ELSE IF key \in will
    THEN [s EXCEPT !.log = Append(@, Hook("componentWillStay", key)),
                   !.pending = @ \cup {Callback("stay", key)}]
    ELSE s

performStay(s, key, will) ==
    IF s.err THEN s
    ELSE IF key \notin s.refs THEN Throw(s)
    ELSE IF key \in will
    THEN [s EXCEPT !.log = Append(@, Hook("componentWillStay", key)),
                   !.pending = @ \cup {Callback("stay", key)}]
    ELSE handleDoneStaying(s, key)

\* keys.forEach(this.performX)
RECURSIVE forEachAppear(_, _, _)
forEachAppear(s, keys, will) ==
    IF keys = <<>> THEN s
    ELSE forEachAppear(performAppear(s, Head(keys), will), Tail(keys), will)

RECURSIVE forEachEnter(_, _, _)
forEachEnter(s, keys, will) ==
    IF keys = <<>> THEN s
    ELSE forEachEnter(performEnter(s, Head(keys), will), Tail(keys), will)

RECURSIVE forEachStay(_, _, _)
forEachStay(s, keys, will) ==
    IF keys = <<>> THEN s
    ELSE forEachStay(performStay(s, Head(keys), will), Tail(keys), will)

RECURSIVE forEachLeave(_, _, _)
forEachLeave(s, keys, will) ==
    IF keys = <<>> THEN s
    ELSE forEachLeave(performLeave(s, Head(keys), will), Tail(keys), will)

\* A drain of the enter queue that leaves the keys on the queue.
drainEnterKeeps(s, will) ==
    forEachEnter(s, s.qEnter, will)

\* Each queue is taken and emptied, then its keys are begun; a throw leaves
\* the queues that follow as they are.
drainEnter(s, will) ==
    forEachEnter([s EXCEPT !.qEnter = <<>>], s.qEnter, will)

drainStay(s, will) ==
    IF s.err THEN s ELSE forEachStay([s EXCEPT !.qStay = <<>>], s.qStay, will)

drainLeave(s, will) ==
    IF s.err THEN s ELSE forEachLeave([s EXCEPT !.qLeave = <<>>], s.qLeave, will)

\* A drain that begins the leaves first.
componentDidUpdateLeaveFirst(s, will) ==
    drainStay(drainEnter(drainLeave(s, will), will), will)

componentDidUpdate(s, will) ==
    drainLeave(drainStay(drainEnter(s, will), will), will)

\* A drop count that is one short.
dropCountShort(len, sz) == len - sz - 1

\* children.length - nextProps.size
dropCount(len, sz) == len - sz

\* A limit that keeps the earliest children and drops the latest.
limitChildrenNewest(prev, next, sz) ==
    LET merged == mergeChildren(prev, next)
        drop   == dropCount(Len(merged), sz)
        halves == splitAt(Len(merged) - drop, merged)
    IN  IF drop > 0 THEN <<halves[2], halves[1]>> ELSE <<(<<>>), merged>>

\* A limit that splits the merged children at the allowed size.
limitChildrenAtSize(prev, next, sz) ==
    LET merged == mergeChildren(prev, next)
        drop   == dropCount(Len(merged), sz)
    IN  IF drop > 0 THEN splitAt(sz, merged) ELSE <<(<<>>), merged>>

\* The first half of componentWillReceiveProps: merge, then drop the children
\* exceeding the allowed size.  <<dropped, children>>; dropped is <<>> for null.
limitChildren(prev, next, sz) ==
    LET merged == mergeChildren(prev, next)
        drop   == dropCount(Len(merged), sz)
    IN  IF drop > 0 THEN splitAt(drop, merged) ELSE <<(<<>>), merged>>

\* nextChildMapping.forEach: the keys flagged to enter.
enteringKeys(prev, next, dropped, ctk) ==
    KeySeq(SelectSeq(next, LAMBDA c :
        /\ ~hasChild(c.key, dropped)
        /\ (~hasChild(c.key, prev) \/ c.key \in ctk)))

\* nextChildMapping.forEach: the keys flagged to stay.
stayingKeys(prev, next, dropped, ctk) ==
    KeySeq(SelectSeq(next, LAMBDA c :
        /\ ~hasChild(c.key, dropped)
        /\ ~(~hasChild(c.key, prev) \/ c.key \in ctk)))

\* A leave flagging that does not look at the dropped children.
leavingKeysDropped(prev, next, dropped) ==
    KeySeq(SelectSeq(prev, LAMBDA c : ~hasChild(c.key, next)))

\* prevChildMapping.forEach: the keys flagged to leave.
leavingKeys(prev, next, dropped) ==
    KeySeq(SelectSeq(prev, LAMBDA c :
        ~hasChild(c.key, dropped) /\ ~hasChild(c.key, next)))

\* A second half that leaves the flags of the dropped keys as they are.
cacheAndFlagKeepsFlags(s, prevChildMapping, nextChildMapping, dropped, kept) ==
    [s EXCEPT !.children = kept,
              !.dirty  = TRUE,
              !.qEnter = @ \o enteringKeys(prevChildMapping, nextChildMapping, dropped, s.ctk),
              !.qStay  = @ \o stayingKeys(prevChildMapping, nextChildMapping, dropped, s.ctk),
              !.qLeave = @ \o leavingKeys(prevChildMapping, nextChildMapping, dropped)]

\* The second half of componentWillReceiveProps: the children are cached, the
\* keys are flagged and the dropped keys are no longer transitioning.
cacheAndFlag(s, prevChildMapping, nextChildMapping, dropped, kept) ==
    [s EXCEPT !.children = kept,
              !.dirty  = TRUE,
              !.qEnter = @ \o enteringKeys(prevChildMapping, nextChildMapping, dropped, s.ctk),
              !.qStay  = @ \o stayingKeys(prevChildMapping, nextChildMapping, dropped, s.ctk),
              !.qLeave = @ \o leavingKeys(prevChildMapping, nextChildMapping, dropped),
              !.ctk    = @ \ KeysOf(dropped)]

componentWillReceiveProps(s, nextChildren, nextSize) ==
    LET nextChildMapping == mapChildren(nextChildren)
        prevChildMapping == s.children
        lim == limitChildren(prevChildMapping, nextChildMapping, nextSize)
    IN  cacheAndFlag(s, prevChildMapping, nextChildMapping, lim[1], lim[2])

-----------------------------------------------------------------------------
(* The modules at rest: each specification runs one module of the          *)
(* repository and leaves the others as they are when nothing uses them.    *)

\* No call has been made on a Pause instance.
NoCall ==
    [op |-> "none", by |-> "none", countBefore |-> 0, controller |-> "none",
     returned |-> FALSE]

\* spotlight/Pause as loaded: let pauseCount = 0.
PauseLoaded ==
    /\ pauseCount = 0
    /\ lastPauser = "none"
    /\ pauseCall = NoCall

\* No VideoBase is constructed.
NoVideo == video = [lifecycle |-> "absent"]

\* The values of the resource bundle module are bundles, records of the
\* object's identity (the order of construction) and its locale spec, and:
\* undefined (`let resBundle;`, and what a function without return yields).
Undefined == [id |-> 0, locale |-> "undefined"]

\* Nothing has been called in the resource bundle module.
NoResCall == [op |-> "none", spec |-> "none", value |-> Undefined, made |-> 0]

\* setResBundleLocale has not been called.  A call is recorded with its spec
\* and with whether it started a load while another load was outstanding.
NoRequest == [spec |-> "none", overlaps |-> FALSE]

\* The resource bundle module as loaded.
NoBundle ==
    /\ resBundle = Undefined
    /\ loads = {}
    /\ created = 0
    /\ resCall = NoResCall
    /\ lastRequest = NoRequest

\* No TransitionGroup is constructed.
NoGroup ==
    /\ pc = "absent"
    /\ children = <<>>
    /\ propsChildren = <<>>
    /\ size = DefaultSize
    /\ currentlyTransitioningKeys = {}
    /\ keysToEnter = <<>>
    /\ keysToStay = <<>>
    /\ keysToLeave = <<>>
    /\ pending = {}

-----------------------------------------------------------------------------
(* The state machine of TransitionGroup *)

\* The instance's fields as a handler state, with the refs of the last render.
Fields ==
    [children |-> children, ctk |-> currentlyTransitioningKeys,
     qEnter |-> keysToEnter, qStay |-> keysToStay, qLeave |-> keysToLeave,
     props |-> propsChildren, refs |-> KeysOf(children),
     pending |-> pending, log |-> <<>>, dirty |-> FALSE, err |-> FALSE]

\* Write a handler state back to the instance.
Commit(s) ==
    /\ children' = s.children
    /\ currentlyTransitioningKeys' = s.ctk
    /\ keysToEnter' = s.qEnter
    /\ keysToStay' = s.qStay
    /\ keysToLeave' = s.qLeave
    /\ pending' = s.pending

\* The cached children are rendered: each rendered child is mounted under its
\* key as a string ref, and the refs of the children no longer rendered go.
render(s) == [s EXCEPT !.refs = KeysOf(s.children)]

\* A setState is followed by a render and a call of componentDidUpdate.
afterSetState(s, will) ==
    IF s.dirty /\ ~s.err THEN componentDidUpdate(render(s), will) ELSE s

\* componentWillMount, the first render, componentDidMount.
mount(s, will) ==
    LET s0 == [s EXCEPT !.ctk = {}, !.qEnter = <<>>, !.qStay = <<>>, !.qLeave = <<>>]
    IN  afterSetState(forEachAppear(render(s0), KeySeq(s0.children), will), {})

\* The keys whose transition componentDidUpdate is to begin.
queued(s) == Range(s.qEnter) \cup Range(s.qStay) \cup Range(s.qLeave)

\* The parent renders again: componentWillReceiveProps(nextProps), with
\* this.props still the previous props; then this.props = nextProps and the
\* cached children are rendered.
receiveProps(s, next, sz) ==
    render([componentWillReceiveProps(s, next, sz) EXCEPT !.props = next])

\* ... and then componentDidUpdate.
update(s, next, sz, will) ==
    afterSetState(componentDidUpdate(receiveProps(s, next, sz), will), {})

\* A child invokes the callback it was handed: the bound handler runs.
invoke(s, kind, key, will) ==
    LET s0 == [s EXCEPT !.pending = @ \ {Callback(kind, key)}]
        s1 == CASE kind = "appear" -> handleDoneAppearing(s0, key, will)
                [] kind = "enter"  -> handleDoneEntering(s0, key)
                [] kind = "stay"   -> handleDoneStaying(s0, key)
                [] kind = "leave"  -> handleDoneLeaving(s0, key)
    IN  afterSetState(s1, {})

\* The children hold at most MaxPending callbacks they have not yet invoked.
Bounded(s) == Cardinality(s.pending) <= MaxPending

\* constructor: state.children = mapChildren(props.children); no hook has run.
Init ==
    /\ pc = "constructed"
    /\ propsChildren \in InitialChildren
    /\ children = mapChildren(propsChildren)
    /\ size \in Sizes
    /\ currentlyTransitioningKeys = {}
    /\ keysToEnter = <<>>
    /\ keysToStay = <<>>
    /\ keysToLeave = <<>>
    /\ pending = {}
    /\ PauseLoaded
    /\ NoVideo
    /\ NoBundle

Mount ==
    /\ pc = "constructed"
    /\ \E will \in SUBSET KeysOf(children) :
       \E s \in {mount(Fields, will)} :
           Bounded(s) /\ Commit(s)
    /\ pc' = "mounted"
    /\ UNCHANGED <<propsChildren, size, pauseVars, video, resVars>>

Update ==
    /\ pc # "constructed"
    /\ \E next \in ChildrenProps :
       \E s1 \in {receiveProps(Fields, next, size)} :
       \E will \in SUBSET queued(s1) :
       \E s \in {afterSetState(componentDidUpdate(s1, will), {})} :
           /\ Bounded(s)
           /\ Commit(s)
           /\ propsChildren' = next
    /\ pc' = "updated"
    /\ UNCHANGED <<size, pauseVars, video, resVars>>

Done(kind, key, will) ==
    \E s \in {invoke(Fields, kind, key, will)} :
        /\ Bounded(s)
        /\ Commit(s)
        /\ UNCHANGED <<pc, propsChildren, size, pauseVars, video, resVars>>

DoneAppearing ==
    /\ pc # "constructed"
    /\ \E key \in Keys :
         /\ Callback("appear", key) \in pending
         /\ \E will \in SUBSET {key} : Done("appear", key, will)

DoneEntering ==
    /\ pc # "constructed"
    /\ \E key \in Keys :
         /\ Callback("enter", key) \in pending
         /\ Done("enter", key, {})

DoneStaying ==
    /\ pc # "constructed"
    /\ \E key \in Keys :
         /\ Callback("stay", key) \in pending
         /\ Done("stay", key, {})

DoneLeaving ==
    /\ pc # "constructed"
    /\ \E key \in Keys :
         /\ Callback("leave", key) \in pending
         /\ Done("leave", key, {})

Next ==
    \/ Mount
    \/ Update
    \/ DoneAppearing
    \/ DoneEntering
    \/ DoneStaying
    \/ DoneLeaving

Spec == Init /\ [][Next]_vars

\* The child handed the callback of the given kind invokes it.
Completes(kind, key) ==
    /\ pc # "constructed"
    /\ Callback(kind, key) \in pending
    /\ \E will \in SUBSET {key} : Done(kind, key, will)

\* Every child invokes the callback it was handed: a callback that stays
\* outstanding is invoked eventually.  The parent is free to render or not.
SpecLive ==
    /\ Init
    /\ [][Next]_vars
    /\ \A kind \in Kinds : \A key \in Keys : WF_vars(Completes(kind, key))

-----------------------------------------------------------------------------
(* spotlight/Pause (src/unnamed/part_003) *)

\* The Pause instances the consumers have constructed.
Instances == {"p1", "p2", "p3"}

\* The calls of pause() explored are those that keep pauseCount within this.
MaxPauseCount == 6

\* function pause (): pauseCount++
pause(count) == count + 1

\* function resume (): if (pauseCount > 0) pauseCount--
resume(count) == IF count > 0 THEN count - 1 ELSE count

\* function isPaused (): pauseCount !== 0
isPaused(count) == count # 0

\* Pause.prototype.pause, called on instance p.
PausePause ==
    /\ pauseCount < MaxPauseCount
    /\ \E p \in Instances :
         /\ pauseCount' = pause(pauseCount)
         /\ lastPauser' = p
         /\ pauseCall' = [op |-> "pause", by |-> p, countBefore |-> pauseCount,
                          controller |-> lastPauser, returned |-> FALSE]
    /\ UNCHANGED <<groupVars, video, resVars>>

\* Pause.prototype.resume, called on instance p: resume(); return !isPaused().
PauseResume ==
    /\ \E p \in Instances :
         /\ pauseCount' = resume(pauseCount)
         /\ pauseCall' = [op |-> "resume", by |-> p, countBefore |-> pauseCount,
                          controller |-> lastPauser,
                          returned |-> ~isPaused(resume(pauseCount))]
    /\ UNCHANGED <<lastPauser, groupVars, video, resVars>>

InitPause == PauseLoaded /\ NoGroup /\ NoVideo /\ NoBundle

NextPause == PausePause \/ PauseResume

SpecPause == InitPause /\ [][NextPause]_vars

-----------------------------------------------------------------------------
(* VideoBase (src/packages/moonstone/VideoPlayer/Video.js)                  *)
(* A handler state v holds the props source, preloadSource and noAutoPlay,  *)
(* the fields isPlayerMounted and loaded, and what the environment holds:   *)
(*   started - the keys of the rendered Media nodes that have dispatched    *)
(*             loadstart since they were created,                           *)
(*   played  - this.video.play() was called by the last handler,            *)
(*   err     - the last handler threw (this.video is null).                 *)

\* The sources a parent may pass, as the `src` strings they carry.
VideoSources == {"a", "b", "c"}

\* No source: the prop is undefined.
NoSource == "undefined"

\* getKeyFromSource (imported from @enact/ui/Media): the src string of a
\* source, the empty string when the source is undefined.
getKeyFromSource(source) == IF source = NoSource THEN "" ELSE source

\* render: the Media nodes, by key; the preload node is suppressed when its key
\* is the key of the source.
renderedVideo(v) ==
    {getKeyFromSource(v.source)} \ {""}

renderedPreload(v) ==
    {getKeyFromSource(v.preloadSource)} \ {"", getKeyFromSource(v.source)}

\* React keeps the node of a key that is rendered again and creates the node
\* of a new key: a new node has not dispatched loadstart.
renderVideo(v) ==
    [v EXCEPT !.started = @ \cap (renderedVideo(v) \cup renderedPreload(v))]

canPlay(v) ==
    /\ v.isPlayerMounted
    /\ v.loaded.video
    /\ (v.preloadSource = NoSource \/ v.loaded.preload)

autoPlay(v) ==
    IF v.noAutoPlay \/ ~canPlay(v) THEN v
    ELSE IF renderedVideo(v) = {} THEN [v EXCEPT !.err = TRUE]
    ELSE [v EXCEPT !.played = TRUE]

handleVideoLoadStart(v) ==
    autoPlay([v EXCEPT !.loaded.video = TRUE])

handlePreloadVideoLoadStart(v) ==
    autoPlay([v EXCEPT !.loaded.preload = TRUE])

\* componentDidUpdate(prevProps), v holding the new props.
videoDidUpdate(v, prevSource, prevPreloadSource) ==
    LET key == getKeyFromSource(v.source)
        prevKey == getKeyFromSource(prevSource)
        preloadKey == getKeyFromSource(v.preloadSource)
        prevPreloadKey == getKeyFromSource(prevPreloadSource)
        v1 == IF v.source # NoSource /\ key # prevKey /\ key # prevPreloadKey
              THEN [v EXCEPT !.loaded.video = FALSE]
              ELSE v
        v2 == IF v.preloadSource # NoSource /\ preloadKey # prevPreloadKey
              THEN [v1 EXCEPT !.loaded.preload = (preloadKey = key)]
              ELSE v1
    IN  IF v.source # NoSource /\ prevPreloadKey = key THEN autoPlay(v2) ELSE v2

\* A handler begins: nothing is played or thrown yet.
videoFields == [video EXCEPT !.played = FALSE, !.err = FALSE]

\* constructor
VideoConstructed(source, preloadSource, noAutoPlay) ==
    [lifecycle |-> "constructed", source |-> source,
     preloadSource |-> preloadSource, noAutoPlay |-> noAutoPlay,
     isPlayerMounted |-> FALSE, loaded |-> [video |-> FALSE, preload |-> FALSE],
     started |-> {}, played |-> FALSE, err |-> FALSE]

InitVideo ==
    /\ \E source, preloadSource \in VideoSources \cup {NoSource} :
       \E noAutoPlay \in BOOLEAN :
           video = VideoConstructed(source, preloadSource, noAutoPlay)
    /\ NoGroup
    /\ PauseLoaded
    /\ NoBundle

\* The first render and componentDidMount.
VideoMount ==
    /\ video.lifecycle = "constructed"
    /\ video' = [renderVideo(videoFields) EXCEPT !.lifecycle = "mounted",
                                                 !.isPlayerMounted = TRUE]
    /\ UNCHANGED <<groupVars, pauseVars, resVars>>

\* The parent renders again with new props: render, then componentDidUpdate.
VideoUpdate ==
    /\ video.lifecycle = "mounted"
    /\ \E source, preloadSource \in VideoSources \cup {NoSource} :
       \E noAutoPlay \in BOOLEAN :
           video' = videoDidUpdate(
                        renderVideo([videoFields EXCEPT
                            !.source = source,
                            !.preloadSource = preloadSource,
                            !.noAutoPlay = noAutoPlay]),
                        video.source, video.preloadSource)
    /\ UNCHANGED <<groupVars, pauseVars, resVars>>

\* The Media node of the source dispatches loadstart.
VideoLoadStart ==
    /\ video.lifecycle = "mounted"
    /\ \E key \in renderedVideo(video) :
           video' = handleVideoLoadStart(
                        [videoFields EXCEPT !.started = @ \cup {key}])
    /\ UNCHANGED <<groupVars, pauseVars, resVars>>

\* The Media node of the preload source dispatches loadstart.
PreloadVideoLoadStart ==
    /\ video.lifecycle = "mounted"
    /\ \E key \in renderedPreload(video) :
           video' = handlePreloadVideoLoadStart(
                        [videoFields EXCEPT !.started = @ \cup {key}])
    /\ UNCHANGED <<groupVars, pauseVars, resVars>>

NextVideo ==
    \/ VideoMount
    \/ VideoUpdate
    \/ VideoLoadStart
    \/ PreloadVideoLoadStart

SpecVideo == InitVideo /\ [][NextVideo]_vars

-----------------------------------------------------------------------------
(* The resource bundle of i18n (src/unnamed/part_004) *)

\* The locale specifiers the callers pass: one of them is written with an
\* underscore.
Specs == {"en-US", "en_US", "ko-KR"}

\* The ResBundle objects constructed are at most this many.
MaxBundles == 3

\* resBundle = null
Null == [id |-> 0, locale |-> "null"]

\* A Promise that is not settled yet.
PromisePending == [id |-> 0, locale |-> "promise"]

\* new Locale(spec).getSpec() (imported from ilib): the parts of the
\* specifier, which the constructor splits at '-' and '_', joined with '-'.
getSpec(spec) == IF spec = "en_US" THEN "en-US" ELSE spec

\* new ResBundle({locale, ...}): the next object, for the locale.
newResBundle(spec) == [id |-> created + 1, locale |-> getSpec(spec)]

getResBundle == resBundle

\* A test that compares the specs of the two locales.
needsResBundleOfLocale(spec) ==
    resBundle \in {Undefined, Null} \/ getSpec(spec) # resBundle.locale

\* !resBundle || spec !== resBundle.getLocale().getSpec()
needsResBundle(spec) ==
    resBundle \in {Undefined, Null} \/ spec # resBundle.locale

\* setResBundleLocale(spec, true): the bundle is created and returned at once.
SetResBundleLocaleSync ==
    /\ \E spec \in Specs :
         IF needsResBundle(spec)
         THEN /\ created < MaxBundles
              /\ resBundle' = newResBundle(spec)
              /\ created' = created + 1
              /\ resCall' = [op |-> "sync", spec |-> spec,
                             value |-> newResBundle(spec), made |-> 1]
              /\ lastRequest' = [spec |-> spec, overlaps |-> FALSE]
         ELSE /\ resCall' = [op |-> "sync", spec |-> spec,
                             value |-> resBundle, made |-> 0]
              /\ lastRequest' = [spec |-> spec, overlaps |-> FALSE]
              /\ UNCHANGED <<resBundle, created>>
    /\ UNCHANGED <<loads, groupVars, pauseVars, video>>

\* setResBundleLocale(spec, false): createResBundle constructs the bundle with
\* an onLoad handler and returns a Promise; the call returns the Promise of
\* its then().  With the active locale the call returns resBundle.
SetResBundleLocaleAsync ==
    /\ \E spec \in Specs :
         IF needsResBundle(spec)
         THEN /\ created < MaxBundles
              /\ loads' = loads \cup {newResBundle(spec)}
              /\ created' = created + 1
              /\ resCall' = [op |-> "async", spec |-> spec,
                             value |-> PromisePending, made |-> 1]
              /\ lastRequest' = [spec |-> spec, overlaps |-> loads # {}]
         ELSE /\ resCall' = [op |-> "async", spec |-> spec,
                             value |-> resBundle, made |-> 0]
              /\ lastRequest' = [spec |-> spec, overlaps |-> FALSE]
              /\ UNCHANGED <<loads, created>>
    /\ UNCHANGED <<resBundle, groupVars, pauseVars, video>>

\* onLoad(bundle) of a load: resolve(bundle); the then() callback assigns
\* resBundle = bundle and returns nothing, which is the value the Promise
\* returned by setResBundleLocale is resolved with.
ResBundleLoaded ==
    /\ \E bundle \in loads :
         /\ loads' = loads \ {bundle}
         /\ resBundle' = bundle
         /\ resCall' = [op |-> "resolved", spec |-> bundle.locale,
                        value |-> Undefined, made |-> 0]
    /\ UNCHANGED <<created, lastRequest, groupVars, pauseVars, video>>

\* clearResBundle()
ClearResBundle ==
    /\ resBundle' = Null
    /\ resCall' = [op |-> "clear", spec |-> "none", value |-> Undefined, made |-> 0]
    /\ UNCHANGED <<loads, created, lastRequest, groupVars, pauseVars, video>>

InitRes == NoBundle /\ NoGroup /\ PauseLoaded /\ NoVideo

NextRes ==
    \/ SetResBundleLocaleSync
    \/ SetResBundleLocaleAsync
    \/ ResBundleLoaded
    \/ ClearResBundle

SpecRes == InitRes /\ [][NextRes]_vars

-----------------------------------------------------------------------------
(* Properties *)

Tracked(key) == hasChild(key, children)

Desired(key) == hasChild(key, mapChildren(propsChildren))

\* The transition kind a child hook belongs to.
HookKind(name) ==
    CASE name \in {"componentWillAppear", "componentDidAppear"} -> "appear"
      [] name \in {"componentWillEnter", "componentDidEnter"}   -> "enter"
      [] name \in {"componentWillStay", "componentDidStay"}     -> "stay"
      [] name \in {"componentWillLeave", "componentDidLeave"}   -> "leave"

\* The hooks of the given kind invoked for key, in a handler's log.
HooksFor(log, kind, key) ==
    {i \in DOMAIN log : log[i].key = key /\ HookKind(log[i].hook) = kind}

\* A handler state as the next handler finds it.
settled(s) == [s EXCEPT !.log = <<>>, !.dirty = FALSE, !.err = FALSE]

\* The handler left the tracked collection and the in-flight map as they were
\* in s0, invoked no hook and threw nothing.
NoOp(s0, s) ==
    /\ s.children = s0.children
    /\ s.ctk = s0.ctk
    /\ s.log = <<>>
    /\ ~s.err

\* C1. Capacity invariant: after an update with capacity `size`, and in every
\* state reached afterwards through completion callbacks, state.children holds
\* at most `size` entries.
C1_Capacity == pc = "updated" => Len(children) <= size

\* An update of more desired children than `size` has filled the capacity.
C1_Witness ==
    /\ pc = "updated"
    /\ Len(propsChildren) > size
    /\ Len(children) = size

\* C2. Revival of a leaving child: a key whose leave is pending and which a new
\* desired collection contains again is classified as entering, and is still
\* tracked after the completion callback of that earlier leave has fired.
C2_RevivedChildIsKept ==
    \A key \in Keys :
        (pc # "constructed" /\ Callback("leave", key) \in pending /\ Tracked(key)) =>
            /\ (key \in currentlyTransitioningKeys /\ ~Desired(key)) =>
                   \A next \in ChildrenProps :
                       LET s1 == receiveProps(Fields, next, size)
                       IN  (hasChild(key, next) /\ hasChild(key, s1.children)) =>
                               key \in Range(s1.qEnter)
            /\ Desired(key) =>
                   hasChild(key, invoke(Fields, "leave", key, {}).children)

\* C3. At-most-one-flight: no key has an enter or appear transition begun and
\* not completed together with a leave transition begun and not completed.
C3_AtMostOneFlight ==
    \A key \in Keys :
        ~(/\ Callback("leave", key) \in pending
          /\ (Callback("enter", key) \in pending \/ Callback("appear", key) \in pending))

\* C4. Completion idempotence: invoking a completion callback a second time
\* leaves the tracked collection and the in-flight map as they were after the
\* first invocation, and raises no error.
C4_CompletionIdempotent ==
    \A cb \in pending : \A will \in SUBSET {cb[2]} :
        \A s1 \in {invoke(Fields, cb[1], cb[2], will)} :
        \A s2 \in {invoke(settled(s1), cb[1], cb[2], will)} :
            ~s1.err =>
                /\ s2.children = s1.children
                /\ s2.ctk = s1.ctk
                /\ ~s2.err

\* C5. A completion callback (appear, enter or leave) that fires for a key the
\* size limit has dropped from the tracked collection is a no-op: nothing
\* changes, no hook is invoked and no error is raised.
C5_DroppedKeyCallbackNoOp ==
    pc # "constructed" =>
        \A next \in ChildrenProps :
        \A dropped \in {limitChildren(children, mapChildren(next), size)[1]} :
        \A s1 \in {receiveProps(Fields, next, size)} :
        \A will \in SUBSET queued(s1) :
        \A s \in {settled(afterSetState(componentDidUpdate(s1, will), {}))} :
        \A cb \in s.pending :
            (cb[1] # "stay" /\ hasChild(cb[2], dropped)) =>
                NoOp(s, invoke(s, cb[1], cb[2], {}))

\* C6. Idempotent update: an update with the desired collection of the previous
\* update invokes no enter, appear or leave hook and leaves the tracked
\* collection and the in-flight map unchanged, in every reachable state.
C6_IdempotentUpdate ==
    pc = "updated" =>
        \A will \in SUBSET queued(receiveProps(Fields, propsChildren, size)) :
        \A s \in {update(Fields, propsChildren, size, will)} :
                /\ s.children = children
                /\ s.ctk = currentlyTransitioningKeys
                /\ \A i \in DOMAIN s.log : HookKind(s.log[i].hook) = "stay"

\* C7. Fresh payload wins: after an update, the tracked entry of a key that is
\* in the desired collection holds the payload the desired collection supplied.
C7_FreshPayloadWins ==
    pc = "updated" =>
        \A i \in DOMAIN children : \A j \in DOMAIN propsChildren :
            children[i].key = propsChildren[j].key =>
                children[i].payload = propsChildren[j].payload

\* The scenario of C8: capacity 2, tracked = [A, B], neither in flight.
C8_Scenario ==
    /\ pc # "constructed"
    /\ size = 2
    /\ KeySeq(children) = <<"A", "B">>
    /\ currentlyTransitioningKeys \cap {"A", "B"} = {}

C8_Desired == Elements(<<"A", "B", "C">>, "v2")

\* C8 as stated: in the scenario, an update to desired = [A, B, C] classifies C
\* as entering and both A and B as staying with no key leaving, and A is still
\* tracked when the update is over (it is dropped only after C's enter
\* completion).
C8_DropAfterEnterCompletion ==
    C8_Scenario =>
        LET s1 == receiveProps(Fields, C8_Desired, size)
        IN  /\ s1.qEnter = <<"C">>
            /\ s1.qStay = <<"A", "B">>
            /\ s1.qLeave = <<>>
            /\ hasChild("A", s1.children)

\* C8, amended: in the scenario, the update classifies C as entering and B as
\* staying with no key leaving; the oldest key A is dropped by the update
\* itself, with no hook invoked for it, and the tracked collection is [B, C]
\* from the update on, also after C's enter completion.
C8_OverCapacity ==
    C8_Scenario =>
        \A s1 \in {receiveProps(Fields, C8_Desired, size)} :
            /\ s1.qEnter = <<"C">>
            /\ s1.qStay = <<"B">>
            /\ s1.qLeave = <<>>
            /\ KeySeq(s1.children) = <<"B", "C">>
            /\ \A will \in SUBSET queued(s1) :
               \A s \in {afterSetState(componentDidUpdate(s1, will), {})} :
                   /\ KeySeq(s.children) = <<"B", "C">>
                   /\ \A i \in DOMAIN s.log : s.log[i].key # "A"
                   /\ ~s.err
                   /\ "C" \in will =>
                          KeySeq(invoke(settled(s), "enter", "C", {}).children) = <<"B", "C">>

\* The scenario is reached, and the update of it can be made.
C8_Witness ==
    /\ C8_Scenario
    /\ \E will \in SUBSET {"B", "C"} :
           /\ "C" \in will
           /\ Bounded(update(Fields, C8_Desired, size, will))

CycleOrder(s1) ==
    [i \in 1..Len(s1.qEnter) |-> <<"enter", s1.qEnter[i]>>]
        \o [i \in 1..Len(s1.qStay) |-> <<"stay", s1.qStay[i]>>]
        \o [i \in 1..Len(s1.qLeave) |-> <<"leave", s1.qLeave[i]>>]

\* C10. Invocation order within one update cycle: the enter hooks are invoked
\* in the order of the entering keys, before any stay hook, and the stay hooks
\* before any leave hook.
C10_InvocationOrder ==
    pc # "constructed" =>
        \A next \in ChildrenProps :
        \A s1 \in {receiveProps(Fields, next, size)} :
        \A will \in SUBSET queued(s1) :
        \A s \in {afterSetState(componentDidUpdate(s1, will), {})} :
            /\ ~s.err
            /\ [i \in DOMAIN s.log |-> <<HookKind(s.log[i].hook), s.log[i].key>>]
                   = CycleOrder(s1)
            /\ SelectSeq(KeySeq(mapChildren(next)),
                         LAMBDA k : k \in Range(s1.qEnter)) = s1.qEnter

\* An update has begun an enter and a leave, or a stay and a leave.
C10_Witness ==
    /\ pc = "updated"
    /\ \E k1, k2 \in Keys :
           /\ k1 # k2
           /\ Callback("leave", k2) \in pending
           /\ Callback("enter", k1) \in pending \/ Callback("stay", k1) \in pending
           /\ Desired(k1) /\ ~Desired(k2) /\ Tracked(k1) /\ Tracked(k2)

\* C11. Stay fires every cycle: in every update, also one of an unchanged
\* desired collection, each key that is tracked, not in flight, desired and not
\* dropped gets exactly one stay invocation: componentWillStay where the child
\* defines it, and componentDidStay when the callback it was handed is invoked;
\* componentDidStay at once where it does not.
C11_StayEveryCycle ==
    pc # "constructed" =>
        \A next \in ChildrenProps :
        \A s1 \in {receiveProps(Fields, next, size)} :
        \A will \in SUBSET queued(s1) :
        \A s \in {afterSetState(componentDidUpdate(s1, will), {})} :
        \A key \in Keys :
            (/\ Tracked(key)
             /\ key \notin currentlyTransitioningKeys
             /\ hasChild(key, next)
             /\ hasChild(key, s1.children)) =>
                /\ ~s.err
                /\ \E i \in DOMAIN s.log :
                       /\ HooksFor(s.log, "stay", key) = {i}
                       /\ s.log[i].hook = IF key \in will THEN "componentWillStay"
                                                          ELSE "componentDidStay"
                /\ key \in will =>
                       /\ Callback("stay", key) \in s.pending
                       /\ invoke(settled(s), "stay", key, {}).log
                              = <<Hook("componentDidStay", key)>>

\* An update has handed a stay callback to a child that is tracked, desired and
\* not in flight, the keys tracked being the keys desired.
C11_Witness ==
    /\ pc = "updated"
    /\ \E key \in Keys :
           /\ Callback("stay", key) \in pending
           /\ Tracked(key)
           /\ Desired(key)
           /\ key \notin currentlyTransitioningKeys
           /\ KeySeq(children) = KeySeq(propsChildren)

\* C12. Order preservation: in every step (an update or a completion callback),
\* two keys that are tracked before and after the step keep their relative
\* order in state.children.
C12_OrderPreserved ==
    [][\A k1, k2 \in Keys :
          (/\ hasChild(k1, children) /\ hasChild(k2, children)
           /\ hasChild(k1, children') /\ hasChild(k2, children')) =>
              ((indexOfChild(k1, children) < indexOfChild(k2, children))
                  <=> (indexOfChild(k1, children') < indexOfChild(k2, children')))]_vars

\* An update has kept A before B although the desired collection has B first.
C12_Witness ==
    /\ pc = "updated"
    /\ KeySeq(children) = <<"A", "B">>
    /\ KeySeq(propsChildren) = <<"B", "A">>

\* C13. Key uniqueness: state.children never holds two entries with the same
\* key, the children given at construction having distinct keys.
C13_UniqueKeys ==
    \A i, j \in DOMAIN children :
        children[i].key = children[j].key => i = j

\* An update has merged a child that was tracked already: the entry of the
\* first render is still tracked and its key is desired again.
C13_Witness ==
    /\ pc = "updated"
    /\ \E i \in DOMAIN children :
           /\ children[i].payload = "v1"
           /\ Desired(children[i].key)

\* The transition begun with the will-hook `hook` (handler state begun) and
\* its callback invoked at once (handler state done) has the effect of the
\* transition begun without the hook (handler state instant).
SameAsCompleted(instant, begun, done, hook) ==
    /\ begun.log = <<hook>>
    /\ instant.log = Tail(done.log)
    /\ instant.children = done.children
    /\ instant.ctk = done.ctk
    /\ instant.err = done.err
    /\ ~instant.err

\* C14. Absent hook means instant completion: for every mounted child and
\* every transition kind, beginning the transition of a child without the
\* will-hook has the effect of beginning it with the hook and invoking the
\* callback at once: the did-hook is invoked, the key is no longer flagged in
\* currentlyTransitioningKeys and, for leave, the key is no longer tracked.
C14_AbsentHookInstant ==
    \A key \in KeysOf(children) :
        /\ \A instant \in {performAppear(Fields, key, {})} :
           \A begun \in {performAppear(Fields, key, {key})} :
               /\ SameAsCompleted(instant, begun,
                                  handleDoneAppearing(begun, key, {}),
                                  Hook("componentWillAppear", key))
               /\ instant.log[1] = Hook("componentDidAppear", key)
               /\ key \notin instant.ctk
        /\ \A instant \in {performEnter(Fields, key, {})} :
           \A begun \in {performEnter(Fields, key, {key})} :
               /\ SameAsCompleted(instant, begun,
                                  handleDoneEntering(begun, key),
                                  Hook("componentWillEnter", key))
               /\ instant.log = <<Hook("componentDidEnter", key)>>
               /\ key \notin instant.ctk
        /\ \A instant \in {performStay(Fields, key, {})} :
           \A begun \in {performStay(Fields, key, {key})} :
               /\ SameAsCompleted(instant, begun,
                                  handleDoneStaying(begun, key),
                                  Hook("componentWillStay", key))
               /\ instant.log = <<Hook("componentDidStay", key)>>
               /\ instant.ctk = currentlyTransitioningKeys
        /\ \A instant \in {performLeave(Fields, key, {})} :
           \A begun \in {performLeave(Fields, key, {key})} :
               /\ SameAsCompleted(instant, begun,
                                  handleDoneLeaving(begun, key),
                                  Hook("componentWillLeave", key))
               /\ instant.log = <<Hook("componentDidLeave", key)>>
               /\ key \notin instant.ctk
               /\ ~hasChild(key, instant.children)

\* An update has added a child, which is tracked with no transition in flight
\* and no callback outstanding: its enter is complete.
C14_Witness ==
    /\ pc = "updated"
    /\ pending = {}
    /\ currentlyTransitioningKeys = {}
    /\ \E i \in DOMAIN children : children[i].payload = "v2"

\* C15. With size = 1 no exit transition ever happens: no update invokes
\* componentWillLeave or componentDidLeave on a child.
C15_NoExitAtSizeOne ==
    (pc # "constructed" /\ size = 1) =>
        \A next \in ChildrenProps :
        \A s1 \in {receiveProps(Fields, next, size)} :
        \A will \in SUBSET queued(s1) :
        \A s \in {afterSetState(componentDidUpdate(s1, will), {})} :
        \A i \in DOMAIN s.log : HookKind(s.log[i].hook) # "leave"

\* C16. With the default size = 2, at most one tracked child has an enter begun
\* and not completed, and at most one tracked child has a leave begun and not
\* completed.
C16_OneInOneOut ==
    size = DefaultSize =>
        /\ Cardinality({k \in Keys :
               Tracked(k) /\ Callback("enter", k) \in pending}) <= 1
        /\ Cardinality({k \in Keys :
               Tracked(k) /\ Callback("leave", k) \in pending}) <= 1

\* C17. Only the Pause instance that called pause() last can resume Spotlight:
\* a resume() by another instance leaves Spotlight paused when it was paused,
\* and not paused when it was not.
C17_OnlyLastPauserResumes ==
    (pauseCall.op = "resume" /\ pauseCall.by # pauseCall.controller) =>
        isPaused(pauseCount) = isPaused(pauseCall.countBefore)

\* C18. resume() returns true exactly when the call resumed Spotlight: it was
\* paused before the call and is not paused after it.
C18_ResumeReturnsResumed ==
    pauseCall.op = "resume" =>
        (pauseCall.returned
            <=> (isPaused(pauseCall.countBefore) /\ ~isPaused(pauseCount)))

\* C19. pause() changes nothing when Spotlight is paused already, so that after
\* any pause() one resume() resumes Spotlight.
C19_PauseOnlyIfNotPaused ==
    pauseCall.op = "pause" =>
        /\ isPaused(pauseCall.countBefore) => pauseCount = pauseCall.countBefore
        /\ ~isPaused(resume(pauseCount))

\* C20. Video auto-play gating: play() is called on the video node only when
\* noAutoPlay is not set, the component is mounted, the node of the current
\* source has dispatched loadstart and, where a preloadSource is set, the node
\* of the preload source has dispatched loadstart.
C20_AutoPlayGated ==
    video.played =>
        /\ ~video.noAutoPlay
        /\ video.lifecycle = "mounted"
        /\ getKeyFromSource(video.source) \in video.started
        /\ \/ video.preloadSource = NoSource
           \/ getKeyFromSource(video.preloadSource) \in video.started

\* C21. The Promise returned by an asynchronous setResBundleLocale resolves
\* with the bundle created for the requested locale, and getResBundle() then
\* returns that bundle.
C21_AsyncResolvesWithBundle ==
    resCall.op = "resolved" =>
        /\ resCall.value = getResBundle
        /\ getResBundle.locale = resCall.spec

\* C22. Desired children are not evicted: after an update whose desired
\* collection has at most `size` children, every key of the desired collection
\* is in the tracked collection.
C22_DesiredNotEvicted ==
    pc # "constructed" =>
        \A next \in ChildrenProps :
            Len(mapChildren(next)) <= size =>
                \A s1 \in {receiveProps(Fields, next, size)} :
                \A will \in SUBSET queued(s1) :
                \A s \in {afterSetState(componentDidUpdate(s1, will), {})} :
                    KeysOf(mapChildren(next)) \subseteq KeysOf(s.children)

\* C23. Hard drop: every key dropped by an update for exceeding `size` is not
\* in flight when the update ends, and the update invokes no hook for it.
C23_HardDrop ==
    pc # "constructed" =>
        \A next \in ChildrenProps :
        \A s1 \in {receiveProps(Fields, next, size)} :
        \A will \in SUBSET queued(s1) :
        \A s \in {afterSetState(componentDidUpdate(s1, will), {})} :
        \A key \in KeysOf(limitChildren(children, mapChildren(next), size)[1]) :
            /\ key \notin s1.ctk
            /\ key \notin s.ctk
            /\ \A i \in DOMAIN s.log : s.log[i].key # key
            /\ \A kind \in Kinds :
                   Callback(kind, key) \in s.pending =>
                       Callback(kind, key) \in pending

\* A desired child whose appear or enter is begun and not completed has been
\* dropped by an update: it is neither tracked nor in flight.
C23_Witness ==
    /\ pc = "updated"
    /\ Len(children) = size
    /\ \E key \in Keys :
           /\ Desired(key)
           /\ ~Tracked(key)
           /\ key \notin currentlyTransitioningKeys
           /\ Callback("appear", key) \in pending \/ Callback("enter", key) \in pending

\* C24. In-flight exactness: a key is in currentlyTransitioningKeys exactly
\* when an appear, enter or leave hook has been invoked for it whose completion
\* callback has not been invoked yet.
C24_InFlightExact ==
    \A key \in Keys :
        key \in currentlyTransitioningKeys <=>
            \E kind \in {"appear", "enter", "leave"} :
                Callback(kind, key) \in pending

\* C25. Single leave per departure: while a tracked child has been handed a
\* leave callback it has not invoked yet, componentWillLeave is not invoked on
\* it again, neither by an update that does not have it enter nor by an appear
\* completion.
C25_SingleLeave ==
    pc # "constructed" =>
        \A key \in Keys :
            (Tracked(key) /\ Callback("leave", key) \in pending) =>
                /\ \A next \in ChildrenProps :
                   \A s1 \in {receiveProps(Fields, next, size)} :
                   \A will \in SUBSET queued(s1) :
                   \A s \in {afterSetState(componentDidUpdate(s1, will), {})} :
                       key \notin Range(s1.qEnter) =>
                           \A i \in DOMAIN s.log :
                               s.log[i] # Hook("componentWillLeave", key)
                /\ Callback("appear", key) \in pending =>
                       \A s \in {invoke(Fields, "appear", key, {key})} :
                       \A i \in DOMAIN s.log :
                           s.log[i] # Hook("componentWillLeave", key)

\* C26. Convergence: if the children invoke every callback they were handed and
\* the desired collection stops changing with at most `size` children, then
\* from some point on the tracked keys are the desired keys and no key is in
\* flight.
C26_Convergence ==
    (/\ <>[][propsChildren' = propsChildren]_vars
     /\ <>[](Len(mapChildren(propsChildren)) <= size))
        => <>[](/\ KeysOf(children) = KeysOf(mapChildren(propsChildren))
                /\ currentlyTransitioningKeys = {})

\* C27. Classification partition: the keys an update has queued to enter, to
\* stay and to leave are pairwise disjoint; a key is queued to leave exactly
\* when it was tracked before the update, is absent from the next children and
\* is not dropped; no dropped key is queued.
C27_Partition ==
    pc # "constructed" =>
        \A next \in ChildrenProps :
        \A s1 \in {receiveProps(Fields, next, size)} :
        \A dropped \in {KeysOf(limitChildren(children, mapChildren(next), size)[1])} :
            /\ Range(s1.qEnter) \cap Range(s1.qStay) = {}
            /\ Range(s1.qEnter) \cap Range(s1.qLeave) = {}
            /\ Range(s1.qStay) \cap Range(s1.qLeave) = {}
            /\ dropped \cap queued(s1) = {}
            /\ \A key \in Keys :
                   key \in Range(s1.qLeave) <=>
                       /\ Tracked(key)
                       /\ ~hasChild(key, mapChildren(next))
                       /\ key \notin dropped

\* An update at size 2 has dropped the oldest of two tracked children, which
\* is desired, and has begun the leave of the other and the enter of a new
\* child.
C27_Witness ==
    /\ pc = "updated"
    /\ size = 2
    /\ \E k1, k2, k3 \in Keys :
           /\ KeySeq(children) = <<k2, k1>>
           /\ children[1].payload = "v1"
           /\ children[2].payload = "v2"
           /\ KeySeq(propsChildren) = <<k3, k1>>
           /\ ~Tracked(k3)
           /\ pending = {Callback("leave", k2), Callback("enter", k1)}

\* C28. Leave completion removes one entry: when the leave callback of a
\* tracked key is invoked, the entry of that key is deleted from the tracked
\* collection and every other entry is kept, in its order.
C28_LeaveRemovesOne ==
    \A key \in Keys :
        (pc # "constructed" /\ Tracked(key) /\ Callback("leave", key) \in pending) =>
            \A s \in {invoke(Fields, "leave", key, {})} :
                /\ ~s.err
                /\ s.children = SelectSeq(children, LAMBDA c : c.key # key)
                /\ Len(s.children) = Len(children) - 1

\* Of the two children mounted, the first has been removed and the second,
\* now at the first position, has a leave callback outstanding.
C28_Witness ==
    /\ pc = "updated"
    /\ children = <<Element("B", "v1")>>
    /\ propsChildren = <<>>
    /\ pending = {Callback("leave", "B")}
    /\ currentlyTransitioningKeys = {"B"}

\* C29. Differ result: the merged collection of an update is the tracked
\* children, in their order, followed by the desired children whose keys are
\* not tracked, in the order desired; no key appears twice.
C29_DifferResult ==
    pc # "constructed" =>
        \A next \in ChildrenProps :
        \A merged \in {mergeChildren(children, mapChildren(next))} :
            /\ merged = children
                   \o SelectSeq(mapChildren(next), LAMBDA c : ~Tracked(c.key))
            /\ \A i, j \in DOMAIN merged :
                   merged[i].key = merged[j].key => i = j

\* An update has merged a tracked child with the desired children, which name
\* a new child first and the tracked child second: the tracked child is first,
\* as the element it was, and the new child follows.
C29_Witness ==
    /\ pc = "updated"
    /\ Len(children) = 2
    /\ children[1].payload = "v1"
    /\ children[2].payload = "v2"
    /\ KeySeq(propsChildren) = <<children[2].key, children[1].key>>
    /\ pending = {}

\* C30. Limiter result: if the merged collection has at most `size` entries
\* nothing is dropped; otherwise the earliest (merged length minus size)
\* entries are dropped and the remaining entries are kept, in their order, as
\* the tracked collection.
C30_LimiterResult ==
    pc # "constructed" =>
        \A next \in ChildrenProps :
        \A merged \in {mergeChildren(children, mapChildren(next))} :
        \A lim \in {limitChildren(children, mapChildren(next), size)} :
            /\ receiveProps(Fields, next, size).children = lim[2]
            /\ lim[1] \o lim[2] = merged
            /\ IF Len(merged) <= size
               THEN lim[1] = <<>>
               ELSE /\ Len(lim[1]) = Len(merged) - size
                    /\ Len(lim[2]) = size

\* An update at size 2 has merged two tracked children with a new one and has
\* dropped the earliest: the second child mounted and the new child are tracked,
\* no hook outstanding.
C30_Witness ==
    /\ pc = "updated"
    /\ size = 2
    /\ children = <<Element("B", "v1"), Element("C", "v2")>>
    /\ KeySeq(propsChildren) = <<"B", "C">>
    /\ pending = {}
    /\ currentlyTransitioningKeys = {}

\* The number of positions of a queue that hold key.
Occurrences(queue, key) == Cardinality({i \in DOMAIN queue : queue[i] = key})

C32_PromotedPreloadPlays ==
    video.lifecycle = "mounted" =>
        \A source \in VideoSources :
        \A preloadSource \in VideoSources \cup {NoSource} :
        \A shown \in {renderVideo([videoFields EXCEPT
                          !.source = source,
                          !.preloadSource = preloadSource,
                          !.noAutoPlay = FALSE])} :
            (/\ source = video.preloadSource
             /\ source # video.source
             /\ source \in video.started
             /\ preloadSource = NoSource \/ preloadSource \in shown.started) =>
                videoDidUpdate(shown, video.source, video.preloadSource).played

\* C33. Last locale wins under overlapping loads: when the last call of
\* setResBundleLocale started a load while another load was outstanding, then
\* once every load has completed the active bundle is the one for the locale
\* of that call.
C33_LastLocaleWins ==
    (/\ lastRequest.overlaps
     /\ loads = {}
     /\ resCall.op = "resolved") =>
        getResBundle.locale = getSpec(lastRequest.spec)

\* C34. Bundle cache reuse: a synchronous setResBundleLocale(spec) with the
\* locale spec of the active bundle constructs no bundle and returns the active
\* bundle, which stays as it is; with another spec, or with no active bundle,
\* it constructs one bundle, makes it the active bundle and returns it.  After
\* clearResBundle, getResBundle() is null.
C34_CacheReuse ==
    [][/\ resCall'.op = "sync" =>
           IF resBundle \notin {Undefined, Null}
                  /\ resCall'.spec = resBundle.locale
           THEN /\ created' = created
                /\ resBundle' = resBundle
                /\ resCall'.value = resBundle
           ELSE /\ created' = created + 1
                /\ resBundle' # resBundle
                /\ resBundle' = [id |-> created', locale |-> getSpec(resCall'.spec)]
                /\ resCall'.value = resBundle'
       /\ resCall'.op = "clear" => resBundle' = Null /\ created' = created]_vars

\* A synchronous call has constructed nothing and has returned the active
\* bundle, the second bundle constructed.
C34_Witness ==
    /\ resCall.op = "sync"
    /\ resCall.made = 0
    /\ resCall.value = getResBundle
    /\ getResBundle.locale = resCall.spec
    /\ getResBundle.id = 2
    /\ created = 2

\* C35. Stay is not in-flight: beginning the stay of a key, with or without
\* componentWillStay, and the invocation of a stay callback leave
\* state.children and currentlyTransitioningKeys as they are; the stay an
\* update begins for a key does not put the key in flight.
C35_StayNotInFlight ==
    pc # "constructed" =>
        /\ \A key \in Keys :
           \A will \in SUBSET {key} :
           \A s \in {performStay(Fields, key, will)} :
               /\ s.children = children
               /\ s.ctk = currentlyTransitioningKeys
        /\ \A key \in Keys :
               Callback("stay", key) \in pending =>
                   \A s \in {invoke(Fields, "stay", key, {})} :
                       /\ s.children = children
                       /\ s.ctk = currentlyTransitioningKeys
        /\ \A next \in ChildrenProps :
           \A s1 \in {receiveProps(Fields, next, size)} :
           \A s \in {afterSetState(componentDidUpdate(s1, Range(s1.qStay)), {})} :
               Range(s1.qStay) \cap s.ctk = {}

\* An update has begun the stay of the one tracked child, which has not invoked
\* the callback; no key is in flight.
C35_Witness ==
    /\ pc = "updated"
    /\ Len(children) = 1
    /\ pending = {Callback("stay", children[1].key)}
    /\ currentlyTransitioningKeys = {}
    /\ KeySeq(propsChildren) = KeySeq(children)

=============================================================================
